---- MODULE Spec2Model ----
(***************************************************************************)
(* Model of the student-records application (src/app.py, src/models.py):   *)
(* the five relations of database.db, the request handlers that read and   *)
(* write them, and the interleaving of handlers that run in different      *)
(* worker threads, each on its own sqlite3 connection.                     *)
(*                                                                         *)
(* A handler that issues one statement and commits is one step.  A handler *)
(* that reads through one statement and writes through a later one         *)
(* (mark_attendance, add_marks_route, edit_student, delete_student) is one *)
(* step per statement, so other handlers can run in between.  The Python   *)
(* sqlite3 module opens a transaction at the first INSERT/UPDATE/DELETE of *)
(* a connection and keeps the write lock until commit(); a connection      *)
(* closed without commit() rolls back.  Uncommitted changes are invisible  *)
(* to other connections.                                                   *)
(***************************************************************************)
EXTENDS Integers, Sequences, FiniteSets, TLC

(* ------------------------------ bounds --------------------------------- *)
MaxStudentRows == 2
MaxAttendanceRows == 2
MaxMarkRows == 2
NumDates == 2
MaxStatsRows == 3

(* --------------------------- value domains ----------------------------- *)
\* SQL NULL / Python None / a JSON key that is absent.
NULL == -1

\* Two worker threads: every race of the handlers is between two requests.
Procs == {1, 2}
\* users.id of two of the accounts models.py seeds (session["user_id"]).
Accounts == {1, 2}
\* The three accounts models.py seeds, "2023", "2024" and "2025": username u
\* is stored under users.id u.
SeededUsers == {1, 2, 3}
\* students.id values a request may name; AUTOINCREMENT never reuses one.
StudentIds == 1..MaxStudentRows
\* The courses relation after models.py has run: ids 1, 2, 3.
Courses == {1, 2, 3}
\* A course id that is in no row of courses.
UnknownCourse == 9
\* course_id values a request may carry: absent, a catalog id, an unknown id.
CourseInputs == {NULL, 1, UnknownCourse}
\* Names after .strip(): 0 is the empty string; larger numbers sort later.
EmptyName == 0
NameInputs == {EmptyName, 1}
\* Usernames no seeded account has.
NewUsernames == {4, 5, 6}
\* "username" of the registration form after .strip(): empty, taken, or new.
UsernameInputs == {EmptyName, 1} \cup NewUsernames
\* len(password) must be at least 6.
MinPasswordLength == 6
\* "password" of the registration form, by its length: empty, short, long.
PasswordInputs == {0, 3, 8}
\* Attendance dates, as day numbers: 'YYYY-MM-DD' strings compare as the
\* days they name.
Dates == 1..NumDates
\* timedelta(days=30).
ThirtyDays == 30
\* datetime.now() when a statistics request is served, as a day number: on
\* the first date, and 30 days after the first date, after the last date and
\* after the day that follows it.
ClockInputs == {1, ThirtyDays + 1, ThirtyDays + NumDates, ThirtyDays + NumDates + 1}
\* "present" of the JSON body: true (1), false (0) or absent.
PresentInputs == {1, 0, NULL}
\* "subject" of the JSON body: 0 is the empty string / absent.
EmptySubject == 0
SubjectInputs == {EmptySubject, 1}
\* "marks" of the JSON body: absent, or a score (0 is a legal score).
MarksInputs == {NULL, 0, 70}

(* ------------------------------- state --------------------------------- *)
VARIABLES
    students,       \* rows of table students: [id, name, course_id, user_id]
    attendance,     \* rows of table attendance: [id, student_id, date, present]
    marks,          \* rows of table marks: [id, student_id, subject, marks]
    users,          \* rows of table users: [id, username]
    seq,            \* sqlite_sequence: last AUTOINCREMENT id of each table
    lock,           \* the connection holding the database write lock, or 0
    req,            \* per worker: the request it is in the middle of, or Idle
    result          \* the answer to the request that completed last

vars == <<students, attendance, marks, users, seq, lock, req, result>>
db == <<students, attendance, marks>>

Idle ==
    [op |-> "none", pc |-> "idle", user |-> 0, id |-> 0, name |-> 0,
     course_id |-> 0, date |-> 0, present |-> 0, subject |-> 0, marks |-> 0,
     existing |-> NULL]

\* A worker takes a new request when it is not in the middle of one.
Free(p) == req[p] = Idle

\* The record of a request that has run its first statement and waits to
\* run the next.
Pending(op, pc, fields) ==
    [f \in DOMAIN Idle |->
        IF f = "op" THEN op
        ELSE IF f = "pc" THEN pc
        ELSE IF f \in DOMAIN fields THEN fields[f] ELSE Idle[f]]

\* Python None as the result of a query that found no row (fetchone()).
None == [none |-> TRUE]

\* Python truthiness of a request value: None, 0 and "" are falsy.
Truthy(v) == v # NULL /\ v # 0

\* INSERT INTO users (username, password): the row stored under the next
\* AUTOINCREMENT id.  The password hash is read by login alone and is left
\* out of the row.
UserRow(id, username) == [id |-> id, username |-> username]

Init ==
    /\ students = {}
    /\ attendance = {}
    /\ marks = {}
    /\ users = {UserRow(u, u) : u \in SeededUsers}
    /\ seq = [t \in {"students", "attendance", "marks", "users"} |->
                IF t = "users" THEN Cardinality(SeededUsers) ELSE 0]
    /\ lock = 0
    /\ req = [p \in Procs |-> Idle]
    /\ result = "none"

(* ------------------------------ queries -------------------------------- *)
RECURSIVE SetToSeq(_)
\* The rows of a result set, in some order, before ORDER BY sorts them.
SetToSeq(S) ==
    IF S = {} THEN <<>>
    ELSE LET x == CHOOSE y \in S : TRUE IN <<x>> \o SetToSeq(S \ {x})

Range(s) == {s[i] : i \in DOMAIN s}

\* courses.name of the row the LEFT JOIN finds, NULL when it finds none.  A
\* catalog row's name is identified with its id.
CourseName(course_id) == IF course_id \in Courses THEN course_id ELSE NULL

\* get_students(user_id, None, course_id): the account's rows, each with its
\* course_name, ordered by name (rows of equal name in rowid order).  The
\* search_query branch (a LIKE pattern on the name) is not modelled.
get_students(user_id, course_id) ==
    LET rows == {s \in students :
                    /\ s.user_id = user_id
                    /\ (Truthy(course_id) => s.course_id = course_id)}
        joined == {[id |-> s.id, name |-> s.name, course_id |-> s.course_id,
                    user_id |-> s.user_id,
                    course_name |-> CourseName(s.course_id)] : s \in rows}
    IN SortSeq(SetToSeq(joined),
               LAMBDA a, b : a.name < b.name \/ (a.name = b.name /\ a.id < b.id))

\* A get_student whose WHERE clause forgets the owner.
get_student_any_owner(student_id, user_id) ==
    LET rows == {s \in students : s.id = student_id}
    IN IF rows = {} THEN None ELSE CHOOSE s \in rows : TRUE

\* get_student(student_id, user_id): the row with that id and that owner, or
\* None.  students.id is the primary key, so at most one row matches.
get_student(student_id, user_id) ==
    LET rows == {s \in students : s.id = student_id /\ s.user_id = user_id}
    IN IF rows = {} THEN None ELSE CHOOSE s \in rows : TRUE

\* get_attendance(student_id, start_date, end_date): newest date first.
get_attendance(student_id, start_date, end_date) ==
    LET rows == {a \in attendance :
                    /\ a.student_id = student_id
                    /\ (Truthy(start_date) => a.date >= start_date)
                    /\ (Truthy(end_date) => a.date <= end_date)}
    IN SortSeq(SetToSeq(rows),
               LAMBDA a, b : a.date > b.date \/ (a.date = b.date /\ a.id < b.id))

\* get_marks(student_id, subject): ORDER BY subject, id DESC.
get_marks(student_id, subject) ==
    LET rows == {m \in marks :
                    /\ m.student_id = student_id
                    /\ (Truthy(subject) => m.subject = subject)}
    IN SortSeq(SetToSeq(rows),
               LAMBDA a, b : a.subject < b.subject
                             \/ (a.subject = b.subject /\ a.id > b.id))

(* ------------------------------ analytics ------------------------------ *)
\* round((num / den) * 100, 1), as the number of tenths of a percent: the
\* nearest tenth, a tie going to the even tenth.  den > 0.
RoundPercent(num, den) ==
    LET q == (num * 1000) \div den
        r == (num * 1000) % den
    IN IF 2 * r < den THEN q
       ELSE IF 2 * r > den THEN q + 1
       ELSE IF q % 2 = 0 THEN q ELSE q + 1

\* student_profile's attendance_summary over the list get_attendance
\* returns: the rows counted by Python's a['present'] == 1 and
\* a['present'] == 0 (a NULL present equals neither); percentage in tenths.
attendance_summary(records) ==
    LET total == Len(records)
        present == Cardinality({i \in DOMAIN records : records[i].present = 1})
        absent == Cardinality({i \in DOMAIN records : records[i].present = 0})
    IN [total |-> total, present |-> present, absent |-> absent,
        percentage |-> IF total > 0 THEN RoundPercent(present, total) ELSE 0]

\* GET /student/<id>: None ("not found or access denied") unless the
\* session's account owns the student, else the summary of its attendance.
student_profile(id, user_id) ==
    IF get_student(id, user_id) = None THEN None
    ELSE attendance_summary(get_attendance(id, NULL, NULL))

\* LIMIT of the top-performers query.
TopLimit == 10

RECURSIVE SumOf(_, _)
\* SUM of field f over a set of rows.
SumOf(S, f) ==
    IF S = {} THEN 0
    ELSE LET x == CHOOSE y \in S : TRUE IN x[f] + SumOf(S \ {x}, f)

\* A get_student_stats whose attendance query has no student_id IN (...)
\* condition.
get_student_stats_all_students(user_id, now) ==
    LET owned == {st \in students : st.user_id = user_id}
        thirty_days_ago == now - ThirtyDays
        rows == {a \in attendance : a.date # NULL /\ a.date >= thirty_days_ago}
        total == Cardinality(rows)
        present == Cardinality({a \in rows : a.present = 1})
    IN [total_students |-> Cardinality(owned),
        by_course |-> [c \in {st.course_id : st \in owned} \cap Courses |->
                        Cardinality({st \in owned : st.course_id = c})],
        attendance_rate |-> IF total > 0 THEN RoundPercent(present, total) ELSE 0]

\* get_student_stats(user_id) served on day now: the number of the account's
\* students, their number per course (JOIN courses), and the attendance rate,
\* in tenths of a percent, over the attendance rows of the account's students
\* dated thirty_days_ago or later; 0 without such rows.
get_student_stats(user_id, now) ==
    LET owned == {st \in students : st.user_id = user_id}
        thirty_days_ago == now - ThirtyDays
        rows == {a \in attendance :
                    /\ a.student_id \in {st.id : st \in owned}
                    /\ a.date # NULL /\ a.date >= thirty_days_ago}
        total == Cardinality(rows)
        present == Cardinality({a \in rows : a.present = 1})
    IN [total_students |-> Cardinality(owned),
        by_course |-> [c \in {st.course_id : st \in owned} \cap Courses |->
                        Cardinality({st \in owned : st.course_id = c})],
        attendance_rate |-> IF total > 0 THEN RoundPercent(present, total) ELSE 0]

\* analytics_page's top_performers query.  students JOIN courses keeps only
\* students whose course_id is the id of a courses row; LEFT JOIN marks and
\* GROUP BY students.id give one group per such student; AVG skips NULL and
\* is NULL for a group without a score, which HAVING drops.  AVG is kept as
\* the exact fraction total/count.  A row carries the group's students.id
\* besides the selected name, course_name and average; rows of equal average
\* are put in id order.
top_performers(user_id) ==
    LET joined == {st \in students : st.user_id = user_id /\ st.course_id \in Courses}
        scores(st) == {m \in marks : m.student_id = st.id /\ m.marks # NULL}
        groups == {[id |-> st.id, name |-> st.name,
                    course_name |-> CourseName(st.course_id),
                    total |-> SumOf(scores(st), "marks"),
                    count |-> Cardinality(scores(st))] : st \in joined}
        having == {g \in groups : g.count > 0}
        ordered == SortSeq(SetToSeq(having),
                        LAMBDA a, b :
                            \/ a.total * b.count > b.total * a.count
                            \/ /\ a.total * b.count = b.total * a.count
                               /\ a.id < b.id)
    IN SubSeq(ordered, 1, IF Len(ordered) < TopLimit THEN Len(ordered) ELSE TopLimit)

(* ---------------------------- row builders ----------------------------- *)
\* An INSERT whose parameter tuple has course_id and user_id exchanged.
StudentRow_swapped(id, name, course_id, user_id) ==
    [id |-> id, name |-> name, course_id |-> user_id, user_id |-> course_id]

\* INSERT INTO students (name, course_id, user_id): the row stored under the
\* next AUTOINCREMENT id.  models.py declares FOREIGN KEY(course_id) but no
\* connection sets PRAGMA foreign_keys, so any course_id is stored.
StudentRow(id, name, course_id, user_id) ==
    [id |-> id, name |-> name, course_id |-> course_id, user_id |-> user_id]

\* INSERT INTO attendance (student_id, date, present).
AttendanceRow(id, student_id, date, present) ==
    [id |-> id, student_id |-> student_id, date |-> date, present |-> present]

\* INSERT INTO marks (student_id, subject, marks).
MarkRow(id, student_id, subject, score) ==
    [id |-> id, student_id |-> student_id, subject |-> subject, marks |-> score]

\* A connection can run a writing statement when no other connection holds
\* the write lock (sqlite3 waits for the lock to be released).
CanWrite(p) == lock \in {0, p}

(* ------------------------- student directory --------------------------- *)
\* A handler returns its response: "ok" (200/201 or a success flash),
\* "invalid" (400 or the "required" flash), "notfound" (404 or the "not found
\* or access denied" flash) or "error" (500 or an error flash).
Answer(p, r) ==
    /\ req' = [req EXCEPT ![p] = Idle]
    /\ result' = r

\* The body shared by api_create_student and add_student's POST branch:
\* reject an empty name or a falsy course_id, else INSERT and commit.
CreateStudent(p, user_id, name, course_id) ==
    /\ Free(p)
    /\ \/ /\ ~Truthy(name) \/ ~Truthy(course_id)
          /\ Answer(p, "invalid")
          /\ UNCHANGED <<students, seq>>
       \/ /\ Truthy(name) /\ Truthy(course_id)
          /\ CanWrite(p)
          /\ seq.students < MaxStudentRows
          /\ LET id == seq.students + 1 IN
                /\ students' = students \cup {StudentRow(id, name, course_id, user_id)}
                /\ seq' = [seq EXCEPT !.students = id]
          /\ Answer(p, "ok")
    /\ UNCHANGED <<attendance, marks, lock, users>>

\* POST /api/students.
api_create_student(p, user_id, name, course_id) ==
    CreateStudent(p, user_id, name, course_id)

\* POST /add.
add_student(p, user_id, name, course_id) ==
    CreateStudent(p, user_id, name, course_id)

\* UPDATE students SET name=?, course_id=? WHERE id=? AND user_id=?
UpdateStudent(id, user_id, name, course_id) ==
    {IF s.id = id /\ s.user_id = user_id
        THEN StudentRow(s.id, name, course_id, s.user_id) ELSE s : s \in students}

\* The rows a statement "... WHERE id=? AND user_id=?" touches (its rowcount).
OwnedRows(id, user_id) == {s \in students : s.id = id /\ s.user_id = user_id}

\* PUT /api/students/<id>: validate, UPDATE, commit; 404 when rowcount is 0.
api_update_student(p, user_id, id, name, course_id) ==
    /\ Free(p)
    /\ \/ /\ ~Truthy(name) \/ ~Truthy(course_id)
          /\ Answer(p, "invalid")
          /\ UNCHANGED students
       \/ /\ Truthy(name) /\ Truthy(course_id)
          /\ CanWrite(p)
          /\ students' = UpdateStudent(id, user_id, name, course_id)
          /\ Answer(p, IF OwnedRows(id, user_id) = {} THEN "notfound" ELSE "ok")
    /\ UNCHANGED <<attendance, marks, seq, lock, users>>

\* POST /edit/<id>, first statement: get_student, then the form check.
edit_student_get(p, user_id, id, name, course_id) ==
    /\ Free(p)
    /\ IF get_student(id, user_id) = None
            THEN Answer(p, "notfound")
       ELSE IF ~Truthy(name) \/ ~Truthy(course_id)
            THEN Answer(p, "invalid")
       ELSE /\ req' = [req EXCEPT ![p] = Pending("edit_student", "update",
                        [user |-> user_id, id |-> id, name |-> name,
                         course_id |-> course_id])]
            /\ UNCHANGED result
    /\ UNCHANGED <<students, attendance, marks, seq, lock, users>>

\* POST /edit/<id>, second statement: UPDATE and commit; the handler flashes
\* "updated successfully" without looking at the rowcount.
edit_student_update(p) ==
    /\ req[p].op = "edit_student" /\ req[p].pc = "update"
    /\ CanWrite(p)
    /\ students' = UpdateStudent(req[p].id, req[p].user, req[p].name, req[p].course_id)
    /\ Answer(p, "ok")
    /\ UNCHANGED <<attendance, marks, seq, lock, users>>

\* DELETE /api/students/<id>: one DELETE on students, commit; 404 when
\* rowcount is 0.
api_delete_student(p, user_id, id) ==
    /\ Free(p)
    /\ CanWrite(p)
    /\ students' = students \ OwnedRows(id, user_id)
    /\ Answer(p, IF OwnedRows(id, user_id) = {} THEN "notfound" ELSE "ok")
    /\ UNCHANGED <<attendance, marks, seq, lock, users>>

\* GET /delete/<id>, the SELECT: no row means "not found or access denied".
delete_student_select(p, user_id, id) ==
    /\ Free(p)
    /\ IF OwnedRows(id, user_id) = {}
       THEN Answer(p, "notfound")
       ELSE /\ req' = [req EXCEPT ![p] = Pending("delete_student", "delete_attendance",
                        [user |-> user_id, id |-> id])]
            /\ UNCHANGED result
    /\ UNCHANGED <<students, attendance, marks, seq, lock, users>>

\* A DELETE FROM attendance on a connection in autocommit mode: the deletion
\* is committed by the statement itself.
delete_student_attendance_autocommit(p) ==
    /\ req[p].op = "delete_student" /\ req[p].pc = "delete_attendance"
    /\ lock = 0
    /\ attendance' = {a \in attendance : a.student_id # req[p].id}
    /\ req' = [req EXCEPT ![p].pc = "delete_marks"]
    /\ UNCHANGED <<students, marks, seq, lock, result, users>>

\* GET /delete/<id>, DELETE FROM attendance: the connection's first writing
\* statement opens its transaction and takes the write lock.  The deletion
\* stays in the connection until commit.
delete_student_attendance(p) ==
    /\ req[p].op = "delete_student" /\ req[p].pc = "delete_attendance"
    /\ lock = 0
    /\ lock' = p
    /\ req' = [req EXCEPT ![p].pc = "delete_marks"]
    /\ UNCHANGED <<students, attendance, marks, seq, result, users>>

\* GET /delete/<id>, DELETE FROM marks, in the open transaction.
delete_student_marks(p) ==
    /\ req[p].op = "delete_student" /\ req[p].pc = "delete_marks"
    /\ lock = p
    /\ req' = [req EXCEPT ![p].pc = "delete_student"]
    /\ UNCHANGED <<students, attendance, marks, seq, lock, result, users>>

\* GET /delete/<id>, DELETE FROM students, in the open transaction.
delete_student_row(p) ==
    /\ req[p].op = "delete_student" /\ req[p].pc = "delete_student"
    /\ lock = p
    /\ req' = [req EXCEPT ![p].pc = "commit"]
    /\ UNCHANGED <<students, attendance, marks, seq, lock, result, users>>

\* GET /delete/<id>, db.commit(): the three deletions become visible at once
\* and the write lock is released.
delete_student_commit(p) ==
    /\ req[p].op = "delete_student" /\ req[p].pc = "commit"
    /\ lock = p
    /\ attendance' = {a \in attendance : a.student_id # req[p].id}
    /\ marks' = {m \in marks : m.student_id # req[p].id}
    /\ students' = students \ OwnedRows(req[p].id, req[p].user)
    /\ lock' = 0
    /\ Answer(p, "ok")
    /\ UNCHANGED <<seq, users>>

(* ------------------------------ ledgers -------------------------------- *)
\* Requests that have read and may still INSERT: each needs a fresh row id.
InFlight(op) == Cardinality({q \in Procs : req[q].op = op})

\* The ids of the attendance rows of one student and date.
AttendanceIds(student_id, date) ==
    {a.id : a \in {b \in attendance : b.student_id = student_id /\ b.date = date}}

\* POST /attendance/mark, mark_attendance's SELECT.  The route passes the
\* JSON student_id on without looking at students or at the session.
\* fetchone() returns one of the matching rows.
\* The ledger is kept to at most cap rows.
mark_attendance_select_upto(cap, p, user_id, student_id, date, present) ==
    /\ Free(p)
    /\ seq.attendance + InFlight("mark_attendance") < cap
    /\ \E existing \in
            IF AttendanceIds(student_id, date) = {} THEN {NULL}
            ELSE AttendanceIds(student_id, date) :
          req' = [req EXCEPT ![p] = Pending("mark_attendance", "write",
                    [user |-> user_id, id |-> student_id, date |-> date,
                     present |-> present, existing |-> existing])]
    /\ UNCHANGED <<students, attendance, marks, seq, lock, result, users>>

mark_attendance_select(p, user_id, student_id, date, present) ==
    mark_attendance_select_upto(MaxAttendanceRows, p, user_id, student_id, date, present)

\* A mark_attendance that INSERTs whether or not its SELECT found a row.
mark_attendance_write_insert_only(p) ==
    /\ req[p].op = "mark_attendance" /\ req[p].pc = "write"
    /\ CanWrite(p)
    /\ LET id == seq.attendance + 1 IN
        /\ attendance' = attendance \cup
                {AttendanceRow(id, req[p].id, req[p].date, req[p].present)}
        /\ seq' = [seq EXCEPT !.attendance = id]
    /\ Answer(p, "ok")
    /\ UNCHANGED <<students, marks, lock, users>>

\* mark_attendance's write: UPDATE the row found, or INSERT; commit.
mark_attendance_write(p) ==
    /\ req[p].op = "mark_attendance" /\ req[p].pc = "write"
    /\ CanWrite(p)
    /\ IF req[p].existing # NULL
       THEN /\ attendance' =
                {IF a.id = req[p].existing
                    THEN AttendanceRow(a.id, a.student_id, a.date, req[p].present)
                    ELSE a : a \in attendance}
            /\ seq' = seq
       ELSE LET id == seq.attendance + 1 IN
            /\ attendance' = attendance \cup
                    {AttendanceRow(id, req[p].id, req[p].date, req[p].present)}
            /\ seq' = [seq EXCEPT !.attendance = id]
    /\ Answer(p, "ok")
    /\ UNCHANGED <<students, marks, lock, users>>

\* POST /marks/add, up to get_student: 400 on a missing field, 404 when the
\* session's account owns no such student.
add_marks_check(p, user_id, student_id, subject, score) ==
    /\ Free(p)
    /\ seq.marks + InFlight("add_marks") < MaxMarkRows
    /\ IF ~Truthy(student_id) \/ ~Truthy(subject) \/ score = NULL
            THEN Answer(p, "invalid")
       ELSE IF get_student(student_id, user_id) = None
            THEN Answer(p, "notfound")
       ELSE /\ req' = [req EXCEPT ![p] = Pending("add_marks", "insert",
                        [user |-> user_id, id |-> student_id, subject |-> subject,
                         marks |-> score])]
            /\ UNCHANGED result
    /\ UNCHANGED <<students, attendance, marks, seq, lock, users>>

\* An add_marks that replaces the student's entry of the same subject.
add_marks_insert_replacing(p) ==
    /\ req[p].op = "add_marks" /\ req[p].pc = "insert"
    /\ CanWrite(p)
    /\ LET id == seq.marks + 1 IN
        /\ marks' = {m \in marks : ~(m.student_id = req[p].id
                                        /\ m.subject = req[p].subject)}
                     \cup {MarkRow(id, req[p].id, req[p].subject, req[p].marks)}
        /\ seq' = [seq EXCEPT !.marks = id]
    /\ Answer(p, "ok")
    /\ UNCHANGED <<students, attendance, lock, users>>

\* add_marks: INSERT INTO marks and commit.
add_marks_insert(p) ==
    /\ req[p].op = "add_marks" /\ req[p].pc = "insert"
    /\ CanWrite(p)
    /\ LET id == seq.marks + 1 IN
        /\ marks' = marks \cup {MarkRow(id, req[p].id, req[p].subject, req[p].marks)}
        /\ seq' = [seq EXCEPT !.marks = id]
    /\ Answer(p, "ok")
    /\ UNCHANGED <<students, attendance, lock, users>>

(* ------------------------------ accounts ------------------------------- *)
\* get_user(username): the row of that username, or None.
get_user(username) ==
    LET rows == {u \in users : u.username = username}
    IN IF rows = {} THEN None ELSE CHOOSE u \in rows : TRUE

\* POST /register up to get_user: the form checks, then the look-up of the
\* username.  "conflict" is the "Username already exists" flash.
register(p, username, password) ==
    /\ Free(p)
    /\ IF ~Truthy(username) \/ ~Truthy(password)
            THEN Answer(p, "invalid")
       ELSE IF password < MinPasswordLength
            THEN Answer(p, "invalid")
       ELSE IF get_user(username) # None
            THEN Answer(p, "conflict")
       ELSE /\ req' = [req EXCEPT ![p] = Pending("register", "create",
                        [name |-> username])]
            /\ UNCHANGED result
    /\ UNCHANGED <<students, attendance, marks, users, seq, lock>>

\* A create_user on a users table whose username column is not UNIQUE.
create_user_not_unique(p) ==
    /\ req[p].op = "register" /\ req[p].pc = "create"
    /\ CanWrite(p)
    /\ LET id == seq.users + 1 IN
            /\ users' = users \cup {UserRow(id, req[p].name)}
            /\ seq' = [seq EXCEPT !.users = id]
    /\ Answer(p, "ok")
    /\ UNCHANGED <<students, attendance, marks, lock>>

\* create_user: INSERT INTO users and commit.  username is UNIQUE
\* (models.py): an INSERT of a stored username raises IntegrityError, which
\* create_user turns into False and register into "Registration failed".
create_user(p) ==
    /\ req[p].op = "register" /\ req[p].pc = "create"
    /\ CanWrite(p)
    /\ IF \E u \in users : u.username = req[p].name
       THEN /\ Answer(p, "failed")
            /\ UNCHANGED <<users, seq>>
       ELSE /\ LET id == seq.users + 1 IN
                    /\ users' = users \cup {UserRow(id, req[p].name)}
                    /\ seq' = [seq EXCEPT !.users = id]
            /\ Answer(p, "ok")
    /\ UNCHANGED <<students, attendance, marks, lock>>

(* ------------------------------ failures ------------------------------- *)
\* A statement of a request in progress raises (the handlers' except
\* branches): the connection is closed without commit, which rolls back its
\* open transaction and releases the write lock; the request reports an
\* error.
storage_error(p) ==
    /\ ~Free(p)
    /\ CanWrite(p)
    /\ lock' = 0
    /\ Answer(p, "error")
    /\ UNCHANGED <<students, attendance, marks, seq, users>>

(* ---------------------------- specification ---------------------------- *)
\* The requests of the student directory, with their inputs drawn from the
\* given accounts, names and course ids.
CreateStep(p, U, N, C) ==
    \E u \in U, n \in N, c \in C :
        \/ api_create_student(p, u, n, c)
        \/ add_student(p, u, n, c)

UpdateStep(p, U, N, C) ==
    \/ \E u \in U, i \in StudentIds, n \in N, c \in C :
            \/ api_update_student(p, u, i, n, c)
            \/ edit_student_get(p, u, i, n, c)
    \/ edit_student_update(p)

DeleteStep(p, U) ==
    \/ \E u \in U, i \in StudentIds :
            \/ api_delete_student(p, u, i)
            \/ delete_student_select(p, u, i)
    \/ delete_student_attendance(p)
    \/ delete_student_marks(p)
    \/ delete_student_row(p)
    \/ delete_student_commit(p)

\* The requests of the attendance ledger.
AttendanceStep(p, U, D, V) ==
    \/ \E u \in U, i \in StudentIds, d \in D, v \in V :
            mark_attendance_select(p, u, i, d, v)
    \/ mark_attendance_write(p)

\* The same requests, for the students I, on a ledger of up to cap rows.
AttendanceStepUpTo(cap, p, U, I, D, V) ==
    \/ \E u \in U, i \in I, d \in D, v \in V :
            mark_attendance_select_upto(cap, p, u, i, d, v)
    \/ mark_attendance_write(p)

\* The requests of the marks ledger.
MarksStep(p, U, S, V) ==
    \/ \E u \in U, i \in StudentIds, sub \in S, v \in V :
            add_marks_check(p, u, i, sub, v)
    \/ add_marks_insert(p)

\* The registration requests.
RegisterStep(p, N, W) ==
    \/ \E n \in N, w \in W : register(p, n, w)
    \/ create_user(p)

\* Every handler, every input.
Next ==
    \E p \in Procs :
        \/ CreateStep(p, Accounts, NameInputs, CourseInputs)
        \/ UpdateStep(p, Accounts, NameInputs, CourseInputs)
        \/ DeleteStep(p, Accounts)
        \/ AttendanceStep(p, Accounts, Dates, PresentInputs)
        \/ MarksStep(p, Accounts, SubjectInputs, MarksInputs)
        \/ RegisterStep(p, UsernameInputs, PasswordInputs)
        \/ storage_error(p)

Spec == Init /\ [][Next]_vars

\* The student directory alone: create, update and delete requests of both
\* accounts, in every interleaving.  No handler left out writes students.
NextDirectory ==
    \E p \in Procs :
        \/ CreateStep(p, Accounts, NameInputs, CourseInputs)
        \/ UpdateStep(p, Accounts, NameInputs, CourseInputs)
        \/ DeleteStep(p, Accounts)
        \/ storage_error(p)

SpecDirectory == Init /\ [][NextDirectory]_vars

\* The attendance ledger with the directory requests that decide whose
\* student a row belongs to: valid create requests, both delete routes and
\* mark-attendance requests of both accounts, in every interleaving.
NextAttendance ==
    \E p \in Procs :
        \/ CreateStep(p, Accounts, {1}, {1})
        \/ DeleteStep(p, Accounts)
        \/ AttendanceStep(p, Accounts, Dates, {1, 0})
        \/ storage_error(p)

SpecAttendance == Init /\ [][NextAttendance]_vars

\* Attendance requests served one at a time: a single worker, which starts a
\* request only after it has answered the one before.  mark_attendance does
\* not read the session, so one account's requests are all there is to it.
SingleWorker == {1}

NextSequential ==
    \E p \in SingleWorker :
        \/ CreateStep(p, {1}, {1}, {1})
        \/ DeleteStep(p, {1})
        \/ AttendanceStep(p, {1}, Dates, {1, 0})
        \/ storage_error(p)

SpecSequential == Init /\ [][NextSequential]_vars

\* The marks ledger: add-mark requests of both accounts, with or without a
\* subject and a score (0 is a score), on the students account 1 creates and
\* deletes.
NextMarks ==
    \E p \in Procs :
        \/ CreateStep(p, {1}, {1}, {1})
        \/ DeleteStep(p, {1})
        \/ MarksStep(p, Accounts, SubjectInputs, {NULL, 0})
        \/ storage_error(p)

SpecMarks == Init /\ [][NextMarks]_vars

\* Deletion with both ledgers filled: requests of both accounts on one date,
\* one subject and one score.
NextCascade ==
    \E p \in Procs :
        \/ CreateStep(p, Accounts, {1}, {1})
        \/ DeleteStep(p, Accounts)
        \/ AttendanceStep(p, Accounts, {1}, {1})
        \/ MarksStep(p, Accounts, {1}, {70})
        \/ storage_error(p)

SpecCascade == Init /\ [][NextCascade]_vars

\* Registration alone: no other handler reads or writes users.
NextAccounts ==
    \E p \in Procs :
        \/ RegisterStep(p, UsernameInputs, PasswordInputs)
        \/ storage_error(p)

SpecAccounts == Init /\ [][NextAccounts]_vars

\* The top-performers list over students of any stored course_id: valid
\* create requests with a catalog or an unknown course id, add-mark requests
\* with a low and a high score, both delete routes; both accounts.
NextPerformers ==
    \E p \in Procs :
        \/ CreateStep(p, Accounts, {1}, {1, UnknownCourse})
        \/ DeleteStep(p, Accounts)
        \/ MarksStep(p, Accounts, {1}, {0, 70})
        \/ storage_error(p)

SpecPerformers == Init /\ [][NextPerformers]_vars

\* The attendance of one account's students, with every value the "present"
\* key of a mark-attendance request may have.
NextProfile ==
    \E p \in Procs :
        \/ CreateStep(p, {1}, {1}, {1})
        \/ AttendanceStep(p, {1}, Dates, PresentInputs)
        \/ storage_error(p)

SpecProfile == Init /\ [][NextProfile]_vars

\* The account statistics: students created by both accounts and deleted
\* through the API (which leaves their attendance rows), attendance of the
\* first two students marked present or absent on the first and the last
\* date, requests served one at a time.
NextStats ==
    \E p \in SingleWorker :
        \/ CreateStep(p, Accounts, {1}, {1})
        \/ \E u \in Accounts, i \in StudentIds : api_delete_student(p, u, i)
        \/ AttendanceStepUpTo(MaxStatsRows, p, {1}, {1, 2}, {1, NumDates}, {1, 0})
        \/ storage_error(p)

SpecStats == Init /\ [][NextStats]_vars

(* ============================== claims ================================= *)
\* Student i is in the unfiltered listing of account B.
Listed(i, B) ==
    \E k \in DOMAIN get_students(B, NULL) : get_students(B, NULL)[k].id = i

HasRow(i) == \E s \in students : s.id = i

\* A students.id that no INSERT has produced or will produce.
NoSuchId == MaxStudentRows + 1

\* C1: a student created by a request of account A is in listStudents(A) and
\* in no other account's list, from the step that creates it and through
\* every later step (create, update, delete by any account) for as long as
\* its row is present.
C1_ListedForOwnerOnly ==
    [][(students' # students) =>
        /\ \A s \in students' \ students : ~HasRow(s.id) =>
            \A p \in Procs, u \in Accounts, n \in NameInputs, c \in CourseInputs :
                (api_create_student(p, u, n, c) \/ add_student(p, u, n, c)) =>
                    /\ Listed(s.id, u)'
                    /\ \A B \in Accounts \ {u} : ~Listed(s.id, B)'
        /\ \A i \in StudentIds, B \in Accounts :
            (HasRow(i) /\ HasRow(i)') => (Listed(i, B) <=> Listed(i, B)')
      ]_vars

\* C1 witness: both accounts own a student, each listed under its owner.
C1_Witness ==
    \E s, t \in students :
        /\ s.user_id = 1 /\ t.user_id = 2
        /\ Listed(s.id, 1) /\ Listed(t.id, 2)
        /\ ~Listed(s.id, 2) /\ ~Listed(t.id, 1)

\* C2: for a student that exists, getStudent by any account other than its
\* owner returns None, the result of getStudent on an id that does not exist.
C2_NonOwnerSeesNothing ==
    \A s \in students : \A B \in Accounts \ {s.user_id} :
        /\ get_student(s.id, B) = None
        /\ get_student(s.id, B) = get_student(NoSuchId, B)

\* C2 witness: a student exists, its owner gets it, and there is another
\* account to ask.
C2_Witness ==
    \E s \in students :
        /\ get_student(s.id, s.user_id) = s
        /\ Accounts \ {s.user_id} # {}

\* The request is answered NotFound and writes nothing.
NotFoundNoEffect == result' = "notfound" /\ UNCHANGED db

\* C8: an update or delete request whose statement finds no student with the
\* requested id owned by the requesting account is answered NotFound and
\* leaves students, attendance and marks unchanged.  (Requests with an empty
\* name or no course_id are rejected before they reach the store and are not
\* covered.)
C8_MissingOrForeignIsNotFound ==
    [][\A p \in Procs :
        /\ \A u \in Accounts, i \in StudentIds, n \in NameInputs, c \in CourseInputs :
            /\ (/\ api_update_student(p, u, i, n, c)
                /\ Truthy(n) /\ Truthy(c)
                /\ OwnedRows(i, u) = {}) => NotFoundNoEffect
            /\ (edit_student_get(p, u, i, n, c) /\ OwnedRows(i, u) = {})
                    => NotFoundNoEffect
            /\ (api_delete_student(p, u, i) /\ OwnedRows(i, u) = {})
                    => NotFoundNoEffect
            /\ (delete_student_select(p, u, i) /\ OwnedRows(i, u) = {})
                    => NotFoundNoEffect
        /\ (edit_student_update(p) /\ OwnedRows(req[p].id, req[p].user) = {})
                => NotFoundNoEffect
        /\ (delete_student_commit(p) /\ OwnedRows(req[p].id, req[p].user) = {})
                => NotFoundNoEffect
      ]_vars

\* C9: every student row a create request adds has a non-empty name and the
\* course_id of a course in the catalog (a request with an empty name or a
\* missing or unknown course_id adds none).
C9_CreatedWithValidCourse ==
    [][\A s \in students' :
            ~HasRow(s.id) => (Truthy(s.name) /\ s.course_id \in Courses)
      ]_vars

\* The ledgers hold nothing for student i.
LedgersEmpty(i) == get_attendance(i, NULL, NULL) = <<>> /\ get_marks(i, NULL) = <<>>

\* C3: after every successful deletion of a student by its owner, through
\* DELETE /api/students/<id> or through /delete/<id>, getAttendance and
\* getMarks of that student are empty.
C3_DeleteEmptiesLedgers ==
    [][\A p \in Procs :
        /\ \A u \in Accounts, i \in StudentIds :
            (api_delete_student(p, u, i) /\ OwnedRows(i, u) # {}) => LedgersEmpty(i)'
        /\ (delete_student_commit(p) /\ OwnedRows(req[p].id, req[p].user) # {})
                => LedgersEmpty(req[p].id)'
      ]_vars

\* C4: a mark-attendance or add-mark request of account B writes an
\* attendance row or a mark entry only for a student that exists and is
\* owned by B when the row is written.
C4_LedgerWritesAreOwned ==
    [][\A p \in Procs :
        /\ mark_attendance_write(p) =>
                \A a \in attendance' \ attendance :
                    OwnedRows(a.student_id, req[p].user) # {}
        /\ add_marks_insert(p) =>
                \A m \in marks' \ marks :
                    OwnedRows(m.student_id, req[p].user) # {}
      ]_vars

\* At most one attendance row per (student_id, date).
OneRowPerDay ==
    \A a, b \in attendance :
        (a.student_id = b.student_id /\ a.date = b.date) => a = b

\* C5: when requests are served one after another, a completed
\* markAttendance(s, d, v) leaves exactly one attendance row for (s, d), its
\* present is v (so a second call on the same student and date overwrites
\* the first), and the rows of every other (student, date) are unchanged.
C5_SequentialUpsert ==
    [][\A p \in Procs :
        mark_attendance_write(p) =>
            LET s == req[p].id
                d == req[p].date
                rows == {a \in attendance' : a.student_id = s /\ a.date = d}
            IN /\ Cardinality(rows) = 1
               /\ \A a \in rows : a.present = req[p].present
               /\ {a \in attendance' : ~(a.student_id = s /\ a.date = d)}
                    = {a \in attendance : ~(a.student_id = s /\ a.date = d)}
      ]_vars

\* C5 witness: a second markAttendance on a student and date has found the
\* row the first one wrote and is about to overwrite it with another value.
C5_Witness ==
    \E p \in Procs :
        /\ req[p].op = "mark_attendance" /\ req[p].existing # NULL
        /\ \E a \in attendance :
            /\ a.id = req[p].existing
            /\ a.student_id = req[p].id /\ a.date = req[p].date
            /\ a.present = 1 /\ req[p].present = 0

\* C6: in every reachable state, under every interleaving of concurrent
\* markAttendance calls, there is at most one attendance row per
\* (student_id, date).
C6_OneRowPerDayConcurrent == OneRowPerDay

\* C7: a /delete/<id> request changes the stored relations in one step or
\* not at all: a step of the request either leaves students, attendance and
\* marks as they were, or removes the student row and all its attendance and
\* mark rows together; a request that fails leaves them as they were.
C7_DeleteAllOrNothing ==
    [][\A p \in Procs :
        (req[p].op = "delete_student" /\ req'[p] # req[p]) =>
            \/ UNCHANGED db
            \/ /\ result' = "ok"
               /\ OwnedRows(req[p].id, req[p].user)' = {}
               /\ LedgersEmpty(req[p].id)'
      ]_vars

\* C7 witness: a delete request has run its three DELETE statements and not
\* yet committed; the student and its ledger rows are still what every other
\* request reads.
C7_Witness ==
    \E p \in Procs :
        /\ req[p].op = "delete_student" /\ req[p].pc = "commit"
        /\ OwnedRows(req[p].id, req[p].user) # {}
        /\ get_attendance(req[p].id, NULL, NULL) # <<>>
        /\ get_marks(req[p].id, NULL) # <<>>

\* C10: a completed addMark adds exactly one entry, under a new id, with the
\* requested student, subject and score, and keeps every entry there was
\* (also one of the same student and subject); an addMark with an empty
\* subject or no score is rejected and leaves the ledger as it was.
C10_MarksAppendOnly ==
    [][\A p \in Procs :
        /\ add_marks_insert(p) =>
            /\ marks \subseteq marks'
            /\ Cardinality(marks' \ marks) = 1
            /\ \A m \in marks' \ marks :
                /\ \A old \in marks : old.id # m.id
                /\ m.student_id = req[p].id
                /\ m.subject = req[p].subject
                /\ m.marks = req[p].marks
        /\ Free(p) =>
            \A u \in Accounts, i \in StudentIds, sub \in SubjectInputs, v \in MarksInputs :
                ((sub = EmptySubject \/ v = NULL) /\ add_marks_check(p, u, i, sub, v))
                    => (result' = "invalid" /\ marks' = marks /\ Free(p)')
      ]_vars

\* C10 witness: two entries of one student and one subject.
C10_Witness ==
    \E m, n \in marks :
        m.id # n.id /\ m.student_id = n.student_id /\ m.subject = n.subject

\* Two account rows with one username are one row.
UsernamesUnique ==
    \A a, b \in users : a.username = b.username => a = b

\* Some row has the username.
Taken(n) == \E u \in users : u.username = n

\* C11: usernames are unique in every reachable state, also under concurrent
\* registrations: a registration of a stored username fails and leaves users
\* as it was; a registration succeeds only with a username no row had and
\* adds one row; so of two concurrent registrations of one new username the
\* first to INSERT succeeds and the second fails.
C11_UsernamesUnique ==
    [][/\ UsernamesUnique'
       /\ \A p \in Procs :
            /\ \A n \in UsernameInputs :
                    (Taken(n) /\ \E w \in PasswordInputs : register(p, n, w)) =>
                        /\ UNCHANGED users
                        /\ result' \in {"invalid", "conflict"}
                        /\ Free(p)'
            /\ (create_user(p) /\ Taken(req[p].name)) =>
                    (UNCHANGED users /\ result' = "failed")
            /\ (create_user(p) /\ ~Taken(req[p].name)) =>
                    /\ result' = "ok"
                    /\ users \subseteq users'
                    /\ Cardinality(users' \ users) = 1
                    /\ \A u \in users' \ users : u.username = req[p].name
       /\ (users' # users) =>
            \E p \in Procs : create_user(p) /\ ~Taken(req[p].name)
      ]_vars

\* C11 witness: a registration that found its username free is about to
\* INSERT it, and a concurrent registration has stored that username since.
C11_Witness ==
    \E p \in Procs :
        /\ req[p].op = "register" /\ req[p].pc = "create"
        /\ \E u \in users : u.username = req[p].name /\ u.id > Cardinality(SeededUsers)
        /\ result = "ok"

\* The students of account B that have at least one mark entry.
ScoredStudents(B) ==
    {st.id : st \in {x \in students :
                        x.user_id = B /\ \E m \in marks : m.student_id = x.id}}

\* C12: for every account, the top-performers list has exactly the account's
\* students with at least one mark entry (all of them when they are at most
\* the limit), each once, in descending order of average score, and at most
\* the limit of rows.
C12_TopPerformersExact ==
    \A B \in Accounts :
        LET rows == top_performers(B)
            ids == {rows[i].id : i \in DOMAIN rows}
        IN  /\ Len(rows) <= TopLimit
            /\ Cardinality(ids) = Len(rows)
            /\ ids \subseteq ScoredStudents(B)
            /\ Cardinality(ScoredStudents(B)) <= TopLimit => ids = ScoredStudents(B)
            /\ \A i, j \in DOMAIN rows :
                    i < j => rows[i].total * rows[j].count >= rows[j].total * rows[i].count

\* C13: the profile of every owned student reports total = the number of its
\* attendance records, presentCount = the number of those marked present,
\* absentCount = the number marked absent, with presentCount + absentCount =
\* total, and percentage = presentCount/total*100 rounded to one decimal, 0
\* when total is 0.
C13_SummaryCountsAddUp ==
    \A u \in Accounts, i \in StudentIds :
        get_student(i, u) # None =>
            LET sum == student_profile(i, u)
                recs == {a \in attendance : a.student_id = i}
            IN  /\ sum.total = Cardinality(recs)
                /\ sum.present = Cardinality({a \in recs : a.present = 1})
                /\ sum.present + sum.absent = sum.total
                /\ sum.total = 0 => sum.percentage = 0
                /\ sum.total > 0 =>
                    /\ 2 * (sum.percentage * sum.total - 1000 * sum.present) <= sum.total
                    /\ 2 * (1000 * sum.present - sum.percentage * sum.total) <= sum.total

\* The attendance records whose student account B owns now and whose date is
\* at most 30 days before day now.
OwnRecent(B, now) ==
    {a \in attendance :
        /\ \E st \in students : st.id = a.student_id /\ st.user_id = B
        /\ a.date >= now - ThirtyDays}

PresentIn(R) == Cardinality({a \in R : a.present = 1})

\* The rate of account B on day now, in tenths of a percent.
RateOf(B, now) == get_student_stats(B, now).attendance_rate

\* Marking attendance for a student account B does not own leaves B's rate
\* as it was.
ForeignMarksKeepRate ==
    \A p \in Procs :
        mark_attendance_write(p) =>
            \A B \in Accounts, now \in ClockInputs :
                OwnedRows(req[p].id, B) = {} => RateOf(B, now)' = RateOf(B, now)

\* C14 as stated: after every change of students or attendance, the
\* attendance rate of an account is exactly
\* present/total*100 over the attendance records of the students it owns
\* now that are dated today minus 30 days or later, 0 when there is none,
\* and records of other accounts' students never change it.
C14_AttendanceRateExact ==
    [][/\ (students' # students \/ attendance' # attendance) =>
            \A B \in Accounts, now \in ClockInputs :
                (LET R == OwnRecent(B, now)
                 IN IF R = {} THEN RateOf(B, now) = 0
                    ELSE RateOf(B, now) * Cardinality(R) = 1000 * PresentIn(R))'
       /\ ForeignMarksKeepRate
      ]_vars

\* C14 amended: after every change of students or attendance, the
\* attendance rate of an account is present/total*100
\* rounded to one decimal, over the attendance records of the students it
\* owns now that are dated today minus 30 days or later, 0 when there is
\* none, and records of other accounts' students never change it.
C14_AttendanceRateRounded ==
    [][/\ (students' # students \/ attendance' # attendance) =>
            \A B \in Accounts, now \in ClockInputs :
                (LET R == OwnRecent(B, now)
                     n == Cardinality(R)
                     rate == RateOf(B, now)
                 IN IF R = {} THEN rate = 0
                    ELSE /\ 2 * (rate * n - 1000 * PresentIn(R)) <= n
                         /\ 2 * (1000 * PresentIn(R) - rate * n) <= n)'
       /\ ForeignMarksKeepRate
      ]_vars

\* C14 witness: an account's rate is taken over a present and an absent
\* record of its students while the ledger holds a record that does not
\* count, of another account's student or older than 30 days.
C14_Witness ==
    \E B \in Accounts, now \in ClockInputs :
        LET R == OwnRecent(B, now)
        IN  /\ Cardinality(R) = 2 /\ PresentIn(R) = 1
            /\ attendance \ R # {}
            /\ RateOf(B, now) = 500
            /\ result = "ok"

====
